---- MODULE Spec2Model ----
(***************************************************************************)
(* Model of src/app.py (Recipe Lab): one Streamlit session.  Every user    *)
(* interaction re-runs the script top to bottom: client initialisation,    *)
(* sidebar history, the text-flow handler, the image preview and the       *)
(* image-flow handler.  A generation is a streaming call to the model      *)
(* service whose fragments arrive one at a time and may fail at any point. *)
(* Text is a sequence of one-character strings.                            *)
(***************************************************************************)
EXTENDS Integers, Sequences, FiniteSets, TLC

VARIABLES
    apiKey,          \* GEMINI_API_KEY in the process environment
    client,          \* cached client handle (st.cache_resource)
    recipe_history,  \* st.session_state.recipe_history
    sidebar,         \* what the sidebar History section showed in the last run
    pc,              \* "idle" | "calling" | "streaming"
    button,          \* the button that triggered the current/last script run
    pressed,         \* widget values the last press was validated on; NoPress
                     \* once the streaming call that press led to is over
    request,         \* the generation request in flight to the model service,
                     \* with the widget values it was built from
    nchunks,         \* number of fragments the stream has yielded so far
    arrived,         \* the text that has arrived on the stream, in arrival order
    response_text,   \* accumulator local to generate_recipe_from_*
    recipe,          \* the recipe result displayed in the main panel
    outcome          \* how the current/last script run ended

vars == <<apiKey, client, recipe_history, sidebar, pc, button, pressed,
          request, nchunks, arrived, response_text, recipe, outcome>>

----------------------------------------------------------------------------
(* Bounds *)

MaxInputLen == 3   \* characters typed into the ingredient text area
MaxHistory == 6   \* history length explored by Spec
MaxRuns == 1   \* history length explored by SpecPrompt and SpecStream
MaxChunks == 2   \* fragments per stream

----------------------------------------------------------------------------
(* Text helpers: Python str methods on sequences of characters *)

NL == "\n"

Whitespace == {" ", NL}

InputChars == {"a", "b", " ", ",", NL}

RECURSIVE LStrip(_)
LStrip(s) ==
    IF s # <<>> /\ Head(s) \in Whitespace THEN LStrip(Tail(s)) ELSE s

RECURSIVE RStrip(_)
RStrip(s) ==
    IF s # <<>> /\ s[Len(s)] \in Whitespace
    THEN RStrip(SubSeq(s, 1, Len(s) - 1))
    ELSE s

\* str.strip()
Strip(s) == RStrip(LStrip(s))

\* str.replace(old, new) for single characters
Replace(s, old, new) == [i \in 1..Len(s) |-> IF s[i] = old THEN new ELSE s[i]]

\* least index of character c in s, 0 when absent
Find(s, c) ==
    IF \E i \in 1..Len(s) : s[i] = c
    THEN CHOOSE i \in 1..Len(s) : s[i] = c /\ \A j \in 1..(i - 1) : s[j] # c
    ELSE 0

\* str.split(sep): always at least one piece
RECURSIVE Split(_, _)
Split(s, sep) ==
    LET i == Find(s, sep) IN
    IF i = 0 THEN <<s>>
    ELSE <<SubSeq(s, 1, i - 1)>> \o Split(SubSeq(s, i + 1, Len(s)), sep)

\* sep.join(list)
RECURSIVE Join(_, _)
Join(sep, list) ==
    IF list = <<>> THEN <<>>
    ELSE IF Len(list) = 1 THEN list[1]
    ELSE list[1] \o sep \o Join(sep, Tail(list))

CommaSpace == <<",", " ">>

\* [x.strip() for x in pieces if x.strip()]
RECURSIVE StripAndDrop(_)
StripAndDrop(pieces) ==
    IF pieces = <<>> THEN <<>>
    ELSE LET x == Strip(Head(pieces)) IN
         IF x # <<>> THEN <<x>> \o StripAndDrop(Tail(pieces))
         ELSE StripAndDrop(Tail(pieces))

\* all texts over a character set up to a length
TextsUpTo(chars, n) == UNION {[1..k -> chars] : k \in 0..n}

----------------------------------------------------------------------------
(* Fixed texts of the program *)

Sentinel == "None - Custom Recipe"

NoDish == ""          \* Python None for specific_dish

GeneratedRecipe ==
    <<"G","e","n","e","r","a","t","e","d"," ","R","e","c","i","p","e">>

ImageBasedRecipe ==
    <<"I","m","a","g","e","-","b","a","s","e","d"," ","R","e","c","i","p","e">>

UseStandardIngredients ==
    <<"U","s","e"," ","s","t","a","n","d","a","r","d"," ",
      "i","n","g","r","e","d","i","e","n","t","s">>

NoneProvided == <<"N","o","n","e"," ","p","r","o","v","i","d","e","d">>

HistoryShown == 5     \* recipe_history[-5:]

TitleCut == 50        \* item[:50]

----------------------------------------------------------------------------
(* Client initialisation *)

NoKey == ""           \* os.getenv gives None or "": both fail `if not api_key`

NoClient == "none"

Stopped == "stopped"  \* st.error + st.stop(): the script run ends here

\* variant: the missing key is reported but the run is not stopped
init_gemini_client_no_stop(key, cached) ==
    IF cached # NoClient THEN cached ELSE "client"

\* init_gemini_client under st.cache_resource: the handle is built once and
\* reused; a run that stops caches nothing
init_gemini_client(key, cached) ==
    IF cached # NoClient THEN cached
    ELSE IF key = NoKey THEN Stopped
    ELSE "client"

----------------------------------------------------------------------------
(* Sidebar: Recipe History *)

Min(a, b) == IF a <= b THEN a ELSE b

Max(a, b) == IF a >= b THEN a ELSE b

\* seq[-n:]
LastN(seq, n) == SubSeq(seq, Max(1, Len(seq) - n + 1), Len(seq))

\* reversed(seq)
Reversed(seq) == [i \in 1..Len(seq) |-> seq[Len(seq) - i + 1]]

\* item[:n]
Prefix(item, n) == SubSeq(item, 1, Min(n, Len(item)))

NotRendered == [rendered |-> FALSE, info |-> FALSE, items |-> <<>>]

\* the items listed, or the "No recipes generated yet!" info box
RenderHistory(history) ==
    IF history # <<>>
    THEN LET shown == Reversed(LastN(history, HistoryShown)) IN
         [rendered |-> TRUE, info |-> FALSE,
          items |-> [i \in 1..Len(shown) |-> Prefix(shown[i], TitleCut)]]
    ELSE [rendered |-> TRUE, info |-> TRUE, items |-> <<>>]

----------------------------------------------------------------------------
(* Text flow: validation, ingredient parsing, prompt *)

\* the condition of the gen_text handler
TextFormAccepted(ingredient_input, popular_dish) ==
    \/ Strip(ingredient_input) # <<>>
    \/ (popular_dish # NoDish /\ popular_dish # Sentinel)

\* variant: newlines are not turned into commas before splitting
ParseIngredientsCommaOnly(ingredient_input) ==
    IF Strip(ingredient_input) # <<>>
    THEN StripAndDrop(Split(ingredient_input, ","))
    ELSE <<>>

\* ingredients = [] ; if input.strip(): [ing.strip() for ing in ... if ing.strip()]
ParseIngredients(ingredient_input) ==
    IF Strip(ingredient_input) # <<>>
    THEN StripAndDrop(Split(Replace(ingredient_input, NL, ","), ","))
    ELSE <<>>

\* the argument passed for specific_dish
DishArgument(popular_dish) ==
    IF popular_dish # Sentinel THEN popular_dish ELSE NoDish

\* variant: `or` in place of `and`
UsesNamedTemplateOr(specific_dish) ==
    specific_dish # NoDish \/ specific_dish # Sentinel

\* the template branch of generate_recipe_from_text
UsesNamedTemplate(specific_dish) ==
    specific_dish # NoDish /\ specific_dish # Sentinel

\* the prompt of generate_recipe_from_text: the template and the values
\* interpolated into it
TextPrompt(ingredients, dietary_prefs, cuisine, meal_type, specific_dish) ==
    IF UsesNamedTemplate(specific_dish)
    THEN [template |-> "named",
          specific_dish |-> specific_dish,
          ingredients |-> IF ingredients # <<>>
                          THEN Join(CommaSpace, ingredients)
                          ELSE UseStandardIngredients,
          dietary_prefs |-> dietary_prefs]
    ELSE [template |-> "free",
          ingredients |-> Join(CommaSpace, ingredients),
          dietary_prefs |-> dietary_prefs,
          cuisine |-> cuisine,
          meal_type |-> meal_type]

\* ", ".join(dietary_prefs) over the selected tags
JoinTags(tags) == Join(<<", ">>, [i \in 1..Len(tags) |-> <<tags[i]>>])

----------------------------------------------------------------------------
(* Image flow: upload, preview, prompt *)

NoFile == [present |-> FALSE, data |-> <<>>, decodable |-> FALSE]

\* an UploadedFile object is truthy whatever its size
FileTruthy(file) == file.present

\* variant: the preview never raises
ImageOpensUnchecked(file) == TRUE

\* Image.open in the preview: raises on bytes that are no image; zero bytes
\* never are one
ImageOpens(file) == file.data # <<>> /\ file.decodable

ImagePrompt(additional_context) ==
    [template |-> "image",
     additional_context |-> IF additional_context # <<>>
                            THEN additional_context
                            ELSE NoneProvided]

----------------------------------------------------------------------------
(* Streaming: fragments and accumulation *)

PartHasText(part) == part.has_text /\ part.text # <<>>

\* for part in parts: if hasattr(part, 'text') and part.text: text += part.text
RECURSIVE AddParts(_, _)
AddParts(text, parts) ==
    IF parts = <<>> THEN text
    ELSE AddParts(IF PartHasText(Head(parts)) THEN text \o Head(parts).text
                  ELSE text,
                  Tail(parts))

\* variant: only the first part of a fragment is read
ConsumeChunkFirstPart(text, chunk) ==
    IF /\ chunk.candidates # <<>>
       /\ chunk.candidates[1].has_content
       /\ chunk.candidates[1].parts # <<>>
    THEN AddParts(text, <<chunk.candidates[1].parts[1]>>)
    ELSE text

\* the body of `for chunk in stream`
ConsumeChunk(text, chunk) ==
    IF /\ chunk.candidates # <<>>
       /\ chunk.candidates[1].has_content
       /\ chunk.candidates[1].parts # <<>>
    THEN AddParts(text, chunk.candidates[1].parts)
    ELSE text

\* variant: the whole text is taken as the title
RecipeNameWholeText(recipe_text, placeholder) ==
    IF recipe_text # <<>> THEN recipe_text ELSE placeholder

\* recipe.split('\n')[0] if recipe else placeholder
RecipeName(recipe_text, placeholder) ==
    IF recipe_text # <<>> THEN Split(recipe_text, NL)[1] ELSE placeholder

Placeholder(b) == IF b = "gen_text" THEN GeneratedRecipe ELSE ImageBasedRecipe

NoRequest == [flow |-> "none"]

NoRecipe == [present |-> FALSE, text |-> <<>>]

NoPress == [widget |-> "none"]

----------------------------------------------------------------------------
(* Input domains *)

Dishes == {Sentinel, "Biryani"}

AllTextForms ==
    [ingredient_input : TextsUpTo(InputChars, MaxInputLen),
     dietary_prefs : {<<>>, <<"Vegan", "Keto">>},
     cuisine : {"Any", "Italian"},
     meal_type : {"Any", "Dinner"},
     popular_dish : Dishes]

SampleTextForms ==
    [ingredient_input : {<<>>, <<"a">>},
     dietary_prefs : {<<"None">>},
     cuisine : {"Any"},
     meal_type : {"Any"},
     popular_dish : Dishes]

Files ==
    {NoFile} \cup
    {f \in [present : {TRUE}, data : {<<>>, <<"b">>}, decodable : BOOLEAN] :
        f.decodable => f.data # <<>>}

AllImageForms == [uploaded_file : Files, additional_context : {<<>>, <<"a">>}]

Parts ==
    {[has_text |-> FALSE, text |-> <<>>]} \cup
    {[has_text |-> TRUE, text |-> t] : t \in {<<>>, <<"a">>, <<NL>>}}

PartLists ==
    {<<>>} \cup {<<p>> : p \in Parts} \cup {<<p, q>> : p \in Parts, q \in Parts}

NoCandidates == [candidates |-> <<>>]

AllChunks ==
    {NoCandidates} \cup
    {[candidates |-> <<[has_content |-> FALSE, parts |-> <<>>]>>]} \cup
    {[candidates |-> <<[has_content |-> TRUE, parts |-> ps]>>] : ps \in PartLists}

\* a fragment carrying one title line, and a fragment carrying nothing
SampleChunks ==
    {NoCandidates,
     [candidates |->
        <<[has_content |-> TRUE,
           parts |-> <<[has_text |-> TRUE, text |-> <<"a", NL>>]>>]>>]}

\* what a fragment says, as the service sent it: the texts of the parts of its
\* candidate that carry text, in order (recorded in `arrived`, which the
\* program never reads)
RECURSIVE ConcatTexts(_, _)
ConcatTexts(parts, i) ==
    IF i > Len(parts) THEN <<>>
    ELSE (IF parts[i].has_text THEN parts[i].text ELSE <<>>)
         \o ConcatTexts(parts, i + 1)

ChunkText(chunk) ==
    IF chunk.candidates = <<>> THEN <<>>
    ELSE ConcatTexts(chunk.candidates[1].parts, 1)

----------------------------------------------------------------------------
(* Initial state: the session after the page-load script run *)

Init ==
    /\ apiKey \in {NoKey, "key"}
    /\ client = IF init_gemini_client(apiKey, NoClient) = Stopped
                THEN NoClient
                ELSE init_gemini_client(apiKey, NoClient)
    /\ recipe_history = <<>>
    /\ sidebar = IF init_gemini_client(apiKey, NoClient) = Stopped
                 THEN NotRendered
                 ELSE RenderHistory(<<>>)
    /\ pc = "idle"
    /\ button = "none"
    /\ pressed = NoPress
    /\ request = NoRequest
    /\ nchunks = 0
    /\ arrived = <<>>
    /\ response_text = <<>>
    /\ recipe = NoRecipe
    /\ outcome = IF init_gemini_client(apiKey, NoClient) = Stopped
                 THEN "halted"
                 ELSE "rendered"

----------------------------------------------------------------------------
(* Script runs *)

\* a run that st.stop() ends at client initialisation: nothing below line 96
\* executes
Halts(b) ==
    /\ init_gemini_client(apiKey, client) = Stopped
    /\ button' = b
    /\ outcome' = "halted"
    /\ UNCHANGED <<apiKey, client, recipe_history, sidebar, pc, pressed,
                   request, nchunks, arrived, response_text, recipe>>

\* lines 84-225 of a run that gets past client initialisation; the previous
\* run's output is gone from the page
Prologue(b) ==
    /\ init_gemini_client(apiKey, client) # Stopped
    /\ client' = init_gemini_client(apiKey, client)
    /\ sidebar' = RenderHistory(recipe_history)
    /\ button' = b
    /\ nchunks' = 0
    /\ arrived' = <<>>
    /\ response_text' = <<>>
    /\ recipe' = NoRecipe
    /\ UNCHANGED <<apiKey, recipe_history>>

\* the gen_text handler up to the streaming call
GenTextHandler(f) ==
    /\ pressed' = [widget |-> "text",
                   ingredient_input |-> f.ingredient_input,
                   popular_dish |-> f.popular_dish]
    /\ IF TextFormAccepted(f.ingredient_input, f.popular_dish)
       THEN /\ request' =
                 [flow |-> "text",
                  form |-> f,
                  ingredients |-> ParseIngredients(f.ingredient_input),
                  prompt |-> TextPrompt(ParseIngredients(f.ingredient_input),
                                        JoinTags(f.dietary_prefs),
                                        f.cuisine, f.meal_type,
                                        DishArgument(f.popular_dish))]
            /\ pc' = "calling"
            /\ outcome' = "running"
       ELSE /\ request' = NoRequest
            /\ pc' = "idle"
            /\ outcome' = "rejected"

\* the image preview and the gen_image handler up to the streaming call
GenImageHandler(f) ==
    /\ pressed' = [widget |-> "image", uploaded_file |-> f.uploaded_file]
    /\ IF FileTruthy(f.uploaded_file) /\ ~ImageOpens(f.uploaded_file)
       THEN /\ request' = NoRequest
            /\ pc' = "idle"
            /\ outcome' = "crashed"
       ELSE IF FileTruthy(f.uploaded_file)
       THEN /\ request' =
                 [flow |-> "image",
                  form |-> f,
                  image_bytes |-> f.uploaded_file.data,
                  prompt |-> ImagePrompt(f.additional_context)]
            /\ pc' = "calling"
            /\ outcome' = "running"
       ELSE /\ request' = NoRequest
            /\ pc' = "idle"
            /\ outcome' = "rejected"

\* the user presses "Generate Recipe"
PressGenText(forms, cap) ==
    /\ pc = "idle"
    /\ Len(recipe_history) < cap
    /\ \/ Halts("gen_text")
       \/ \E f \in forms : Prologue("gen_text") /\ GenTextHandler(f)

\* the user presses "Generate Recipe from Image"
PressGenImage(forms, cap) ==
    /\ pc = "idle"
    /\ Len(recipe_history) < cap
    /\ \/ Halts("gen_image")
       \/ \E f \in forms : Prologue("gen_image") /\ GenImageHandler(f)

\* any other interaction: the script re-runs with no button pressed; the
\* preview of a file that is no image still ends the run
Rerun ==
    /\ pc = "idle"
    /\ \/ Halts("none")
       \/ \E file \in Files :
             /\ Prologue("none")
             /\ pressed' = NoPress
             /\ request' = NoRequest
             /\ pc' = "idle"
             /\ outcome' = IF FileTruthy(file) /\ ~ImageOpens(file)
                           THEN "crashed"
                           ELSE "rendered"

----------------------------------------------------------------------------
(* The streaming call *)

\* generate_content_stream: the service takes the request and starts to answer
ModelResponds ==
    /\ pc = "calling"
    /\ pc' = "streaming"
    /\ request' = NoRequest
    /\ UNCHANGED <<apiKey, client, recipe_history, sidebar, button, pressed,
                   nchunks, arrived, response_text, recipe, outcome>>

\* one iteration of `for chunk in stream`
ReceiveChunk(chunks) ==
    /\ pc = "streaming"
    /\ nchunks < MaxChunks
    /\ \E chunk \in chunks :
          /\ response_text' = ConsumeChunk(response_text, chunk)
          /\ arrived' = arrived \o ChunkText(chunk)
    /\ nchunks' = nchunks + 1
    /\ UNCHANGED <<apiKey, client, recipe_history, sidebar, pc, button,
                   pressed, request, recipe, outcome>>

\* variant: the title is inserted at the front of the history
StreamEndsPrepends ==
    /\ pc = "streaming"
    /\ recipe' = [present |-> TRUE, text |-> response_text]
    /\ recipe_history' =
          <<RecipeName(response_text, Placeholder(button))>> \o recipe_history
    /\ response_text' = <<>>
    /\ pressed' = NoPress
    /\ pc' = "idle"
    /\ outcome' = "done"
    /\ UNCHANGED <<apiKey, client, sidebar, button, request, nchunks, arrived>>

\* the stream is exhausted: the function returns, the handler displays the
\* recipe and records its title
StreamEnds ==
    /\ pc = "streaming"
    /\ recipe' = [present |-> TRUE, text |-> response_text]
    /\ recipe_history' =
          Append(recipe_history, RecipeName(response_text, Placeholder(button)))
    /\ response_text' = <<>>
    /\ pressed' = NoPress
    /\ pc' = "idle"
    /\ outcome' = "done"
    /\ UNCHANGED <<apiKey, client, sidebar, button, request, nchunks, arrived>>

\* variant: the failure is caught and the text received so far is returned
StreamFailsKeepsPartial ==
    /\ pc \in {"calling", "streaming"}
    /\ request' = NoRequest
    /\ recipe' = [present |-> TRUE, text |-> response_text]
    /\ recipe_history' =
          Append(recipe_history, RecipeName(response_text, Placeholder(button)))
    /\ response_text' = <<>>
    /\ pressed' = NoPress
    /\ pc' = "idle"
    /\ outcome' = "error"
    /\ UNCHANGED <<apiKey, client, sidebar, button, nchunks, arrived>>

\* the streaming call raises: the exception leaves the function and the
\* handler, and ends the script run
StreamFails ==
    /\ pc \in {"calling", "streaming"}
    /\ request' = NoRequest
    /\ response_text' = <<>>
    /\ pressed' = NoPress
    /\ pc' = "idle"
    /\ outcome' = "error"
    /\ UNCHANGED <<apiKey, client, recipe_history, sidebar, button, nchunks,
                   arrived, recipe>>

----------------------------------------------------------------------------
(* Specifications *)

\* the session with its history: sample forms, sample fragments
Next ==
    \/ PressGenText(SampleTextForms, MaxHistory)
    \/ PressGenImage(AllImageForms, MaxHistory)
    \/ Rerun
    \/ ModelResponds
    \/ ReceiveChunk(SampleChunks)
    \/ StreamEnds
    \/ StreamFails

Spec == Init /\ [][Next]_vars

\* validation and prompt building: every form, fragments without content
NextPrompt ==
    \/ PressGenText(AllTextForms, MaxRuns)
    \/ PressGenImage(AllImageForms, MaxRuns)
    \/ Rerun
    \/ ModelResponds
    \/ ReceiveChunk({NoCandidates})
    \/ StreamEnds
    \/ StreamFails

SpecPrompt == Init /\ [][NextPrompt]_vars

\* the streaming call: sample forms, every fragment
NextStream ==
    \/ PressGenText(SampleTextForms, MaxRuns)
    \/ PressGenImage(AllImageForms, MaxRuns)
    \/ Rerun
    \/ ModelResponds
    \/ ReceiveChunk(AllChunks)
    \/ StreamEnds
    \/ StreamFails

SpecStream == Init /\ [][NextStream]_vars

----------------------------------------------------------------------------
(* What the claims speak of, stated without the program's own helpers *)

Separators == {",", NL}

MinOf(S) == CHOOSE x \in S : \A y \in S : x <= y

MaxOf(S) == CHOOSE x \in S : \A y \in S : x >= y

\* a piece without its surrounding whitespace
Trimmed(p) ==
    LET solid == {i \in 1..Len(p) : p[i] \notin Whitespace} IN
    IF solid = {} THEN <<>> ELSE SubSeq(p, MinOf(solid), MaxOf(solid))

\* the non-empty trimmed entries between separators, from position start on
RECURSIVE EntriesFrom(_, _)
EntriesFrom(s, start) ==
    LET seps == {i \in start..Len(s) : s[i] \in Separators}
        stop == IF seps = {} THEN Len(s) + 1 ELSE MinOf(seps)
        t    == Trimmed(SubSeq(s, start, stop - 1))
    IN  (IF t # <<>> THEN <<t>> ELSE <<>>)
        \o (IF stop > Len(s) THEN <<>> ELSE EntriesFrom(s, stop + 1))

Entries(s) == EntriesFrom(s, 1)

\* entries separated by ", "
RECURSIVE Listed(_)
Listed(e) ==
    IF e = <<>> THEN <<>>
    ELSE IF Len(e) = 1 THEN e[1]
    ELSE Listed(SubSeq(e, 1, Len(e) - 1)) \o <<",", " ">> \o e[Len(e)]

\* the text up to, not including, the first newline
FirstLine(t) ==
    LET nls == {i \in 1..Len(t) : t[i] = NL} IN
    IF nls = {} THEN t ELSE SubSeq(t, 1, MinOf(nls) - 1)

\* the last min(k, 5) titles, most recent first
Recent(h) ==
    LET k == IF Len(h) < 5 THEN Len(h) ELSE 5 IN
    [i \in 1..k |-> h[Len(h) - i + 1]]

EmptyUpload(file) == ~file.present \/ file.data = <<>>

----------------------------------------------------------------------------
(* Claims *)

\* C1: in the text flow, an ingredient input that yields no non-empty entry
\* (after splitting on commas/newlines and trimming) together with the
\* "None - Custom Recipe" selection is rejected: no request is issued.
C1_NoIngredientNoDishRejected ==
    (/\ pressed.widget = "text"
     /\ Entries(pressed.ingredient_input) = <<>>
     /\ pressed.popular_dish = Sentinel)
    => (request = NoRequest /\ pc = "idle" /\ outcome = "rejected")

\* C2: in the image flow, a press with no uploaded file or with zero-length
\* image bytes issues no request and leaves the history unchanged.
C2_EmptyImageRejected ==
    [][(/\ button' = "gen_image"
        /\ pressed'.widget = "image"
        /\ EmptyUpload(pressed'.uploaded_file))
       => (/\ request' = NoRequest
           /\ pc' = "idle"
           /\ outcome' \in {"rejected", "crashed"}
           /\ recipe' = NoRecipe
           /\ recipe_history' = recipe_history)]_vars

C2_Witness ==
    /\ pressed.widget = "image"
    /\ pressed.uploaded_file.present
    /\ pressed.uploaded_file.data = <<>>
    /\ outcome = "crashed"

\* C3: once k generations have completed, the history the sidebar shows is
\* exactly the last min(k, 5) titles, most recent first, and the "no recipes"
\* branch shows only when k = 0.
C3_SidebarShowsRecent ==
    (pc = "idle" /\ sidebar.rendered)
    => (/\ sidebar.items = Recent(recipe_history)
        /\ (sidebar.info <=> recipe_history = <<>>))

\* C4: when the streaming call fails, before or after fragments arrived, the
\* run ends in error with no recipe result: the accumulated text is dropped,
\* nothing is displayed and nothing is appended to the history.
C4_FailureDiscardsPartial ==
    [][(pc # "idle" /\ outcome' = "error")
       => (/\ pc' = "idle"
           /\ response_text' = <<>>
           /\ recipe' = NoRecipe
           /\ recipe_history' = recipe_history)]_vars

C4_Witness ==
    /\ outcome = "error"
    /\ nchunks > 0
    /\ arrived # <<>>

\* C5: the result of a stream that completes is the concatenation, in arrival
\* order, of the text of every part that carries non-empty text; anything
\* else contributes nothing and no textual part gives the empty string.
C5_ResultIsConcatenation ==
    /\ pc = "streaming" => response_text = arrived
    /\ outcome = "done" => (recipe.present /\ recipe.text = arrived)

C5_Witness ==
    /\ outcome = "done"
    /\ nchunks = 2
    /\ recipe.text = <<"a", NL, "a">>

\* C6: the title recorded for a completed generation is the first line of
\* the recipe text when the text is non-empty, and otherwise the placeholder
\* of the flow: "Generated Recipe" (text) or "Image-based Recipe" (image).
C6_TitleIsFirstLine ==
    outcome = "done"
    => recipe_history[Len(recipe_history)] =
          IF recipe.text # <<>> THEN FirstLine(recipe.text)
          ELSE IF button = "gen_text" THEN GeneratedRecipe
          ELSE ImageBasedRecipe

C6_Witness ==
    /\ outcome = "done"
    /\ recipe.text = <<"a", NL, "a">>
    /\ recipe_history = <<(<<"a">>)>>

\* C7: an accepted text request uses the named-dish template exactly when
\* the selection is a catalog dish other than the sentinel; otherwise it uses
\* the free-form template, which carries the ingredients, dietary
\* preferences, cuisine style and meal type, and no dish name.
C7_TemplateChoice ==
    request.flow = "text"
    => LET f == request.form
           p == request.prompt
       IN  /\ p.template \in {"named", "free"}
           /\ p.template = "named" <=> f.popular_dish \in Dishes \ {Sentinel}
           /\ p.template = "named" => p.specific_dish = f.popular_dish
           /\ p.template = "free" =>
                 /\ DOMAIN p = {"template", "ingredients", "dietary_prefs",
                                "cuisine", "meal_type"}
                 /\ p.ingredients = Listed(Entries(f.ingredient_input))
                 /\ p.dietary_prefs = JoinTags(f.dietary_prefs)
                 /\ p.cuisine = f.cuisine
                 /\ p.meal_type = f.meal_type

C7_Witness ==
    /\ request.flow = "text"
    /\ request.form.popular_dish = Sentinel
    /\ request.prompt.template = "free"
    /\ request.form.cuisine = "Italian"

\* C8: the ingredient list of the prompt is the input split on commas and
\* newlines, each entry trimmed, empty entries dropped, order and duplicates
\* kept, joined with ", ": no entry is empty or has surrounding whitespace.
C8_IngredientList ==
    request.flow = "text"
    => LET e == Entries(request.form.ingredient_input)
           p == request.prompt
       IN  /\ request.ingredients = e
           /\ \A i \in 1..Len(request.ingredients) :
                 LET x == request.ingredients[i] IN
                 /\ x # <<>>
                 /\ x[1] \notin Whitespace
                 /\ x[Len(x)] \notin Whitespace
                 /\ \A j \in 1..Len(x) : x[j] \notin Separators
           /\ (p.template = "free" \/ e # <<>>) => p.ingredients = Listed(e)

C8_Witness ==
    /\ request.flow = "text"
    /\ Len(request.ingredients) = 2
    /\ request.form.ingredient_input = <<"b", NL, "a">>
    /\ request.prompt.ingredients = <<"b", ",", " ", "a">>

\* C9: the history only grows by appending: a completed generation adds
\* exactly one entry after the existing ones, and no other step changes it.
C9_AppendOnly ==
    [][IF pc = "streaming" /\ outcome' = "done"
       THEN /\ Len(recipe_history') = Len(recipe_history) + 1
            /\ SubSeq(recipe_history', 1, Len(recipe_history)) = recipe_history
       ELSE recipe_history' = recipe_history]_vars

C9_Witness ==
    /\ Len(recipe_history) = 2
    /\ recipe_history[1] # recipe_history[2]
    /\ outcome = "rejected"

\* C10: without the API key every run halts at client initialisation: no
\* client handle exists, no request is ever issued, nothing is rendered
\* below that point and the history is never updated.
C10_NoKeyHalts ==
    apiKey = NoKey
    => (/\ client = NoClient
        /\ outcome = "halted"
        /\ pc = "idle"
        /\ request = NoRequest
        /\ recipe = NoRecipe
        /\ ~sidebar.rendered
        /\ recipe_history = <<>>)

C10_Witness ==
    /\ apiKey = NoKey
    /\ button = "gen_text"
    /\ outcome = "halted"

====
